---- MODULE Spec2Model ----
(***************************************************************************)
(* Model of app.py (Ola Ride Insights): the cleaning function              *)
(* load_and_clean, the sqlite load, the catalog of ten queries and the     *)
(* script run that drives them.                                            *)
(*                                                                         *)
(* Cell values are records [t, core, l, r, n]:                             *)
(*   t = "null"    a missing cell (NaN / None / NaT / SQL NULL)            *)
(*   t = "str"     text: l spaces, core, r spaces (core has no outer space)*)
(*   t = "num"     a number, n in tenths (27 is 2.7, 120 is 12)            *)
(*   t = "numtext" the decimal text of the number n (tenths)               *)
(*   t = "ts"      a timestamp, n = 100 * day + time-of-day slot           *)
(*   t = "tstext"  the ISO text of the timestamp n                         *)
(*   t = "concat"  the text "<date of day n> <text core,l,r>" of line 52   *)
(* A dataset (DataFrame, CSV file, sqlite table) is [cols, rows]: a set of *)
(* header strings and a sequence of rows, each a function on cols.         *)
(***************************************************************************)
EXTENDS Integers, Sequences, FiniteSets, TLC

VARIABLES
    pc,            \* position of the script run
    rawFile,       \* OLA_DataSet.xlsx: [exists, data]
    cacheFile,     \* Cleaned_OLA_Data.csv: [exists, data], data in CSV fields
    store,         \* table ola_rides of ola.db: [exists, data]
    memo,          \* st.cache_data entry of load_and_clean: [state, data], state
                   \* "none" (no entry), "None" (it returned None) or "df"
    df,            \* the module-level df of the current run
    qi,            \* index of the next catalog query
    results,       \* results shown so far in this run, by query index
    failedAt,      \* index of the query whose exception ended the run, or 0
    run,           \* what happened in the current run (record of flags and snapshots)
    nstage,        \* normalization harness: stage
    nraw,          \* normalization harness: raw input
    nout,          \* normalization harness: load_and_clean steps applied once
    nout2,         \* normalization harness: steps applied to their own output
    nq10           \* normalization harness: Query 10 on the loaded output

vars == <<pc, rawFile, cacheFile, store, memo, df, qi, results, failedAt, run,
          nstage, nraw, nout, nout2, nq10>>

runVars == <<pc, rawFile, cacheFile, store, memo, df, qi, results, failedAt, run>>
normVars == <<nstage, nraw, nout, nout2, nq10>>

---------------------------------------------------------------------------
(* Values *)

Null == [t |-> "null", core |-> "", l |-> 0, r |-> 0, n |-> 0]
Str(c, lp, rp) == [t |-> "str", core |-> c, l |-> lp, r |-> rp, n |-> 0]
S(c) == Str(c, 0, 0)
Num(k) == [t |-> "num", core |-> "", l |-> 0, r |-> 0, n |-> k]
NumText(k) == [t |-> "numtext", core |-> "", l |-> 0, r |-> 0, n |-> k]
Ts(k) == [t |-> "ts", core |-> "", l |-> 0, r |-> 0, n |-> k]
TsText(k) == [t |-> "tstext", core |-> "", l |-> 0, r |-> 0, n |-> k]

IsNull(v) == v.t = "null"
EmptyStr == S("")

\* str.strip()
Strip(v) == IF v.t \in {"str", "concat"} THEN [v EXCEPT !.l = 0, !.r = 0] ELSE v

\* fillna(x)
FillNa(v, x) == IF IsNull(v) THEN x ELSE v

\* astype(str)
AsStr(v) ==
    CASE v.t = "null" -> S("nan")
      [] v.t = "num" -> NumText(v.n)
      [] v.t = "ts" -> TsText(v.n)
      [] OTHER -> v

\* the calendar dates and times of day the text parser knows
DateDay(c) ==
    CASE c = "2024-01-05" -> 1
      [] c = "2024-01-06" -> 2
      [] OTHER -> -1

TimeSlot(c) ==
    CASE c = "" -> 0
      [] c = "09:15:00" -> 1
      [] c = "14:30:00" -> 2
      [] OTHER -> -1

\* pd.to_datetime(x, errors='coerce'); a number counts nanoseconds from day 0
ToDatetime(v) ==
    CASE v.t = "ts" -> v
      [] v.t = "tstext" -> Ts(v.n)
      [] v.t = "num" -> Ts(0)
      [] v.t = "str" -> IF DateDay(v.core) >= 0 THEN Ts(100 * DateDay(v.core)) ELSE Null
      [] v.t = "concat" -> IF TimeSlot(v.core) >= 0 THEN Ts(100 * v.n + TimeSlot(v.core)) ELSE Null
      [] OTHER -> Null

\* df['Date'].dt.strftime('%Y-%m-%d') + ' ' + df['Time']
DateSpaceTime(d, tm) ==
    IF d.t = "ts" /\ tm.t = "str"
    THEN [t |-> "concat", core |-> tm.core, l |-> tm.l, r |-> tm.r, n |-> d.n \div 100]
    ELSE Null

\* the numbers the text parser knows, in tenths
ParseNum(c) ==
    CASE c = "0" -> Num(0)
      [] c = "12" -> Num(120)
      [] c = "2.7" -> Num(27)
      [] c = "4.5" -> Num(45)
      [] c = "-3" -> Num(-30)
      [] OTHER -> Null

\* pd.to_numeric(x, errors='coerce')
ToNumeric(v) ==
    CASE v.t = "num" -> v
      [] v.t = "numtext" -> Num(v.n)
      [] v.t = "str" -> ParseNum(v.core)
      [] OTHER -> Null

\* faulty variant of AsInt: rounds down instead of toward zero
TruncFloor(v) == Num((v.n \div 10) * 10)

\* astype(int) of a float: truncation toward zero
AsInt(v) ==
    IF v.n >= 0 THEN Num((v.n \div 10) * 10) ELSE Num(-(((-v.n) \div 10) * 10))

---------------------------------------------------------------------------
(* Datasets *)

Col(name) == S(name)
Has(d, name) == Col(name) \in d.cols
EmptyData == [cols |-> {}, rows |-> <<>>]

\* df[name] = vals, one value per row
SetCol(d, name, vals) ==
    LET cs == d.cols \cup {Col(name)}
    IN [cols |-> cs,
        rows |-> [i \in 1..Len(d.rows) |->
                    [c \in cs |-> IF c = Col(name) THEN vals[i] ELSE d.rows[i][c]]]]

\* df[name], one value per row
Column(d, name) == [i \in 1..Len(d.rows) |-> d.rows[i][Col(name)]]

\* df.columns = [c.strip() for c in df.columns]
TrimColumns(d) ==
    LET cs == {Strip(h) : h \in d.cols}
        src(c) == CHOOSE h \in d.cols : Strip(h) = c
    IN [cols |-> cs,
        rows |-> [i \in 1..Len(d.rows) |-> [c \in cs |-> d.rows[i][src(c)]]]]

\* Date and Time -> Ride_Timestamp
DeriveTimestamp(d) ==
    IF Has(d, "Date") /\ Has(d, "Time")
    THEN LET d1 == SetCol(d, "Date",
                          [i \in 1..Len(d.rows) |-> ToDatetime(Column(d, "Date")[i])])
             d2 == SetCol(d1, "Time",
                          [i \in 1..Len(d.rows) |-> AsStr(Column(d1, "Time")[i])])
         IN SetCol(d2, "Ride_Timestamp",
                   [i \in 1..Len(d.rows) |->
                      ToDatetime(DateSpaceTime(Column(d2, "Date")[i], Column(d2, "Time")[i]))])
    ELSE IF Has(d, "Ride_Timestamp")
         THEN SetCol(d, "Ride_Timestamp",
                     [i \in 1..Len(d.rows) |-> ToDatetime(Column(d, "Ride_Timestamp")[i])])
         ELSE d

\* faulty variant of FillLabel: tests for '' before stripping
FillBeforeStrip(v, label) ==
    LET filled == FillNa(v, EmptyStr)
    IN IF filled = EmptyStr THEN S(label) ELSE Strip(AsStr(filled))

\* faulty variant of FillLabel: no strip
FillNoStrip(v, label) ==
    LET s == AsStr(FillNa(v, EmptyStr))
    IN IF s = EmptyStr THEN S(label) ELSE s

\* fillna('').astype(str).str.strip(), then '' -> label
FillLabel(v, label) ==
    LET s == Strip(AsStr(FillNa(v, EmptyStr)))
    IN IF s = EmptyStr THEN S(label) ELSE s

\* lines 60-62 and 63-65 for one column: only when the column is there
FillColumn(d, name, label) ==
    IF Has(d, name)
    THEN SetCol(d, name, [i \in 1..Len(d.rows) |-> FillLabel(Column(d, name)[i], label)])
    ELSE d

FillLabels(d) ==
    FillColumn(FillColumn(d, "Payment_Method", "Other"),
               "Incomplete_Rides_Reason", "Unknown Reason")

\* pd.to_numeric(errors='coerce').fillna(0).astype(int)
CoerceCount(v) == AsInt(FillNa(ToNumeric(v), Num(0)))

\* faulty variant of CoerceRating: zero-fills like the counts
CoerceRatingZeroFill(v) == FillNa(ToNumeric(v), Num(0))

\* pd.to_numeric(errors='coerce')
CoerceRating(v) == ToNumeric(v)

\* lines 68-69 and 73-74 for one column: only when the column is there
CoerceCountColumn(d, name) ==
    IF Has(d, name)
    THEN SetCol(d, name, [i \in 1..Len(d.rows) |-> CoerceCount(Column(d, name)[i])])
    ELSE d

\* lines 70-72 for one column: only when the column is there
CoerceRatingColumn(d, name) ==
    IF Has(d, name)
    THEN SetCol(d, name, [i \in 1..Len(d.rows) |-> CoerceRating(Column(d, name)[i])])
    ELSE d

CoerceNumerics(d) ==
    CoerceCountColumn(
        CoerceRatingColumn(
            CoerceRatingColumn(CoerceCountColumn(d, "Ride_Distance"), "Driver_Ratings"),
            "Customer_Rating"),
        "Booking_Value")

\* lines 44-74 of load_and_clean: steps 1-4 on the raw DataFrame
Normalize(d) == CoerceNumerics(FillLabels(DeriveTimestamp(TrimColumns(d))))

---------------------------------------------------------------------------
(* Files: the Excel workbook and the cleaned CSV *)

\* text that the pandas readers take for a missing value
NaTokens == {"", "nan", "NaN", "NA", "N/A", "null", "None"}

IsNaText(v) == v.t = "str" /\ v.l = 0 /\ v.r = 0 /\ v.core \in NaTokens

\* pd.read_excel: a cell holding a missing-value token is read as NaN
ReadExcel(book) ==
    [cols |-> book.cols,
     rows |-> [i \in 1..Len(book.rows) |->
                 [c \in book.cols |->
                    IF IsNaText(book.rows[i][c]) THEN Null ELSE book.rows[i][c]]]]

\* the text to_csv writes for one cell
CsvField(v) ==
    CASE v.t = "null" -> Null
      [] v.t = "num" -> NumText(v.n)
      [] v.t = "ts" -> TsText(v.n)
      [] v.t = "str" -> IF v = EmptyStr THEN Null
                        ELSE IF v.l = 0 /\ v.r = 0 /\ ~IsNull(ParseNum(v.core))
                             THEN NumText(ParseNum(v.core).n)
                             ELSE v
      [] OTHER -> v

\* df.to_csv(CLEAN_CSV, index=False)
ToCsv(d) ==
    [cols |-> d.cols,
     rows |-> [i \in 1..Len(d.rows) |-> [c \in d.cols |-> CsvField(d.rows[i][c])]]]

\* a CSV column is numeric when every field of it is a number or empty
NumericColumn(f, c) ==
    \A i \in 1..Len(f.rows) : f.rows[i][c].t \in {"null", "numtext"}

\* parse_dates converts a column whose every field is a timestamp or empty
DateColumn(f, c) ==
    \A i \in 1..Len(f.rows) : f.rows[i][c].t \in {"null", "tstext"}

ReadCsvCell(f, c, v, parseDates) ==
    CASE IsNaText(v) -> Null
      [] v.t = "numtext" /\ NumericColumn(f, c) -> Num(v.n)
      [] v.t = "tstext" /\ c \in parseDates /\ DateColumn(f, c) -> Ts(v.n)
      [] OTHER -> v

ReadCsvWith(f, parseDates) ==
    [cols |-> f.cols,
     rows |-> [i \in 1..Len(f.rows) |->
                 [c \in f.cols |-> ReadCsvCell(f, c, f.rows[i][c], parseDates)]]]

\* lines 25-31: read_csv with parse_dates=["Ride_Timestamp"]; when that raises
\* (the column is missing), read_csv without parse_dates
ReadCleanCsv(f) ==
    IF Col("Ride_Timestamp") \in f.cols
    THEN ReadCsvWith(f, {Col("Ride_Timestamp")})
    ELSE ReadCsvWith(f, {})

---------------------------------------------------------------------------
(* The sqlite table and the query catalog *)

\* the value sqlite stores for one cell: a timestamp is stored as its ISO text
SqlValue(v) == IF v.t = "ts" THEN TsText(v.n) ELSE v

\* the table to_sql creates from a DataFrame
SqlData(d) ==
    [cols |-> d.cols,
     rows |-> [i \in 1..Len(d.rows) |-> [c \in d.cols |-> SqlValue(d.rows[i][c])]]]

\* faulty variant of ReplaceTable: if_exists='append'
AppendToTable(old, d) ==
    IF old.exists /\ old.data.cols = d.cols
    THEN [exists |-> TRUE,
          data |-> [cols |-> d.cols, rows |-> old.data.rows \o SqlData(d).rows]]
    ELSE [exists |-> TRUE, data |-> SqlData(d)]

\* df.to_sql("ola_rides", conn, if_exists="replace", index=False), when it succeeds
ReplaceTable(old, d) == [exists |-> TRUE, data |-> SqlData(d)]

NoTable == [exists |-> FALSE, data |-> EmptyData]

\* what a failed to_sql can leave behind: the table as it was, no table (dropped,
\* not recreated), or the recreated table without rows (insert rolled back)
FailedTable(old, d) ==
    {old, NoTable, [exists |-> TRUE, data |-> [cols |-> d.cols, rows |-> <<>>]]}

\* SQL LOWER() on the text the model uses
LowerCore(c) ==
    CASE c \in {"Yes", "YES", "yes"} -> "yes"
      [] c \in {"No", "no"} -> "no"
      [] c \in {"UPI", "Upi", "upi"} -> "upi"
      [] c \in {"Cash", "cash"} -> "cash"
      [] c \in {"Other", "other"} -> "other"
      [] c \in {"Success", "SUCCESS", "success"} -> "success"
      [] c \in {"Canceled by Driver", "canceled by driver"} -> "canceled by driver"
      [] OTHER -> c

\* three-valued LOWER(x) = 'text'
LowerEq(v, text) ==
    CASE v.t = "null" -> "null"
      [] v.t = "str" /\ v.l = 0 /\ v.r = 0 /\ LowerCore(v.core) = text -> "true"
      [] OTHER -> "false"

NotNull3(v) == IF v.t = "null" THEN "false" ELSE "true"

Or3(a, b) ==
    IF a = "true" \/ b = "true" THEN "true"
    ELSE IF a = "null" \/ b = "null" THEN "null" ELSE "false"

\* the rows whose three-valued WHERE condition (flags, one per row) is true, in
\* table order
RECURSIVE KeepWhere(_, _)
KeepWhere(rows, flags) ==
    IF rows = <<>> THEN <<>>
    ELSE (IF Head(flags) = "true" THEN <<Head(rows)>> ELSE <<>>)
         \o KeepWhere(Tail(rows), Tail(flags))

\* ORDER BY key: NULL first, then values ascending
OrderKey(v) ==
    CASE v.t = "null" -> -1
      [] v.t \in {"tstext", "ts", "num", "numtext"} -> v.n
      [] OTHER -> 100000

RECURSIVE InsertByKey(_, _, _)
InsertByKey(row, sorted, c) ==
    IF sorted = <<>> THEN <<row>>
    ELSE IF OrderKey(row[c]) < OrderKey(Head(sorted)[c])
         THEN <<row>> \o sorted
         ELSE <<Head(sorted)>> \o InsertByKey(row, Tail(sorted), c)

RECURSIVE OrderBy(_, _)
OrderBy(rows, c) ==
    IF rows = <<>> THEN <<>>
    ELSE InsertByKey(rows[Len(rows)], OrderBy(SubSeq(rows, 1, Len(rows) - 1), c), c)

Project(rows, cs) == [i \in 1..Len(rows) |-> [c \in cs |-> rows[i][c]]]

QueryCount == 10
TopCustomers == 5

\* the columns each catalog query names
QueryCols(k) ==
    CASE k = 1 -> {"Booking_Status"}
      [] k = 2 -> {"Vehicle_Type", "Ride_Distance"}
      [] k = 3 -> {"Canceled_Rides_by_Customer", "Booking_Status"}
      [] k = 4 -> {"Customer_ID", "Booking_Value"}
      [] k = 5 -> {"Canceled_Rides_by_Driver"}
      [] k = 6 -> {"Driver_Ratings", "Vehicle_Type"}
      [] k = 7 -> {"Payment_Method"}
      [] k = 8 -> {"Vehicle_Type", "Customer_Rating"}
      [] k = 9 -> {"Booking_Value", "Booking_Status"}
      [] OTHER -> {"Booking_ID", "Ride_Timestamp", "Booking_Status",
                   "Incomplete_Rides", "Incomplete_Rides_Reason"}

\* faulty variant of Q10Where: without the reason disjunct
Q10WhereYesOnly(row) == LowerEq(row[Col("Incomplete_Rides")], "yes")

\* WHERE LOWER(Incomplete_Rides) = 'yes' OR Incomplete_Rides_Reason IS NOT NULL
Q10Where(row) ==
    Or3(LowerEq(row[Col("Incomplete_Rides")], "yes"),
        NotNull3(row[Col("Incomplete_Rides_Reason")]))

Distinct(rows, c) == {rows[i][c] : i \in 1..Len(rows)}

Min(a, b) == IF a <= b THEN a ELSE b

\* the rows a catalog query returns from table data t; for the aggregate queries
\* only the number of result rows (the "Rows: N" of line 131) is modelled, as
\* rows without columns
QueryRows(k, t) ==
    LET blank(n) == [i \in 1..n |-> <<>>]
    IN CASE k = 1 -> KeepWhere(t.rows, [i \in 1..Len(t.rows) |->
                                LowerEq(t.rows[i][Col("Booking_Status")], "success")])
         [] k = 2 -> blank(Cardinality(Distinct(t.rows, Col("Vehicle_Type"))))
         [] k = 4 -> blank(Min(TopCustomers, Cardinality(Distinct(t.rows, Col("Customer_ID")))))
         [] k = 7 -> KeepWhere(t.rows, [i \in 1..Len(t.rows) |->
                                LowerEq(t.rows[i][Col("Payment_Method")], "upi")])
         [] k = 8 -> blank(Cardinality(Distinct(
                        KeepWhere(t.rows, [i \in 1..Len(t.rows) |->
                                     NotNull3(t.rows[i][Col("Customer_Rating")])]),
                        Col("Vehicle_Type"))))
         [] k = 10 -> Project(OrderBy(KeepWhere(t.rows, [i \in 1..Len(t.rows) |->
                                                 Q10Where(t.rows[i])]),
                                      Col("Ride_Timestamp")),
                              {Col(c) : c \in QueryCols(10)})
         [] OTHER -> blank(1)

\* sqlite accepts the query when the table exists and has every column it names
QueryValid(k, tbl) == tbl.exists /\ \A c \in QueryCols(k) : Col(c) \in tbl.data.cols

\* parse_dates=['Ride_Timestamp'] on a result
ParseResultDates(rows) ==
    [i \in 1..Len(rows) |->
       [c \in DOMAIN rows[i] |->
          IF c = Col("Ride_Timestamp") THEN ToDatetime(rows[i][c]) ELSE rows[i][c]]]

Failed == [ok |-> FALSE, rows |-> <<>>]

\* pd.read_sql_query(q, conn[, parse_dates]): a result, or an exception (Failed)
ReadSqlQuery(k, tbl, parseDates) ==
    IF ~QueryValid(k, tbl) THEN Failed
    ELSE [ok |-> TRUE,
          rows |-> IF parseDates /\ k \in {1, 7, 10}
                   THEN ParseResultDates(QueryRows(k, tbl.data))
                   ELSE QueryRows(k, tbl.data)]

\* lines 127-130: try with parse_dates, on any exception try again without
TryQuery(k, tbl) ==
    LET first == ReadSqlQuery(k, tbl, TRUE)
    IN IF first.ok THEN first ELSE ReadSqlQuery(k, tbl, FALSE)

---------------------------------------------------------------------------
(* The cleaning steps on bounded raw DataFrames *)

MaxRows == 2

ColumnNames ==
    {"Booking_ID", "Date", "Time", "Ride_Timestamp", "Booking_Status", "Payment_Method",
     "Incomplete_Rides", "Incomplete_Rides_Reason", "Ride_Distance", "Booking_Value",
     "Driver_Ratings", "Customer_Rating"}

\* the values a cell of each column takes in a DataFrame read from the workbook
CellValues(name) ==
    CASE name = "Booking_ID" -> {S("B1"), S("B2")}
      [] name = "Date" -> {Ts(100), S("2024-01-06"), S("bad"), Null}
      [] name = "Time" -> {S("14:30:00"), Str("09:15:00", 1, 0), S("bad"), Null}
      [] name = "Ride_Timestamp" -> {TsText(102), Ts(201), S("bad"), Null}
      [] name = "Booking_Status" -> {S("Success"), S("Canceled by Driver")}
      [] name = "Payment_Method" ->
            {S("Cash"), Str("UPI", 1, 1), Str("", 1, 0), S("Other"), Num(120), Null}
      [] name = "Incomplete_Rides" -> {S("No"), S("Yes"), Null}
      [] name = "Incomplete_Rides_Reason" ->
            {Str("Customer Demand", 0, 1), Str("", 2, 0), S("Unknown Reason"), Null}
      [] name = "Ride_Distance" ->
            {Num(120), Num(27), Num(-35), S("12"), Str("2.7", 1, 0), S("abc"), Null}
      [] name = "Booking_Value" -> {Num(2505), Num(-5), S("abc"), Null}
      [] name = "Driver_Ratings" -> {Num(45), Num(0), S("4.5"), S("abc"), Null}
      [] OTHER -> {Num(40), S("n/a"), Null}

BaseCells ==
    [name \in ColumnNames |->
        CASE name = "Booking_ID" -> S("B1")
          [] name = "Date" -> Ts(100)
          [] name = "Time" -> S("14:30:00")
          [] name = "Ride_Timestamp" -> TsText(102)
          [] name = "Booking_Status" -> S("Success")
          [] name = "Payment_Method" -> S("Cash")
          [] name = "Incomplete_Rides" -> S("No")
          [] name = "Incomplete_Rides_Reason" -> Str("Customer Demand", 0, 1)
          [] name = "Ride_Distance" -> Num(120)
          [] name = "Booking_Value" -> Num(2505)
          [] name = "Driver_Ratings" -> Num(45)
          [] OTHER -> Num(40)]

\* rows that differ from the base row in one cell
RowCells ==
    UNION {{[BaseCells EXCEPT ![name] = v] : v \in CellValues(name)} : name \in ColumnNames}

Plain(names) == {Col(name) : name \in names}

\* the header sets of the raw DataFrames: with Date and Time, with a combined
\* Ride_Timestamp, with untrimmed headers, without Incomplete_Rides, and with
\* none of the cleaned columns
Schemas ==
    {Plain(ColumnNames \ {"Ride_Timestamp"}),
     Plain(ColumnNames \ {"Date", "Time"}),
     Plain(ColumnNames \ {"Ride_Timestamp", "Payment_Method", "Ride_Distance",
                          "Incomplete_Rides_Reason", "Driver_Ratings"})
        \cup {Str("Payment_Method", 1, 0), Str("Ride_Distance", 0, 1),
              Str("Incomplete_Rides_Reason", 1, 1), Str("Driver_Ratings", 0, 2)},
     Plain(ColumnNames \ {"Ride_Timestamp", "Incomplete_Rides"}),
     Plain({"Booking_ID", "Booking_Status", "Incomplete_Rides"})}

Frame(hs, cells) ==
    [cols |-> hs,
     rows |-> [i \in 1..Len(cells) |-> [h \in hs |-> cells[i][h.core]]]]

\* a row whose every cleaned cell is missing or unparsable
BadCells ==
    [name \in ColumnNames |->
        CASE name = "Booking_ID" -> S("B2")
          [] name = "Date" -> S("bad")
          [] name = "Time" -> Null
          [] name = "Ride_Timestamp" -> S("bad")
          [] name = "Booking_Status" -> S("Canceled by Driver")
          [] name = "Payment_Method" -> Null
          [] name = "Incomplete_Rides" -> Null
          [] name = "Incomplete_Rides_Reason" -> Str("", 2, 0)
          [] name = "Ride_Distance" -> S("abc")
          [] name = "Booking_Value" -> Null
          [] name = "Driver_Ratings" -> S("abc")
          [] OTHER -> S("n/a")]

MoreRows == {BaseCells, BadCells}

\* the raw DataFrames: a row of RowCells, then up to MaxRows - 1 rows of MoreRows
RawFrames ==
    {Frame(hs, <<first>> \o more) :
        hs \in Schemas, first \in RowCells,
        more \in UNION {[1..k -> MoreRows] : k \in 0..(MaxRows - 1)}}

\* steps 1-4 on the raw DataFrame
ApplyOnce ==
    /\ nstage = "raw"
    /\ nout' = Normalize(nraw)
    /\ nstage' = "once"
    /\ UNCHANGED <<nraw, nout2, nq10>>
    /\ UNCHANGED runVars

\* steps 1-4 on their own output
ApplyTwice ==
    /\ nstage = "once"
    /\ nout2' = Normalize(nout)
    /\ nstage' = "twice"
    /\ UNCHANGED <<nraw, nout, nq10>>
    /\ UNCHANGED runVars

\* to_sql of the cleaned DataFrame into an empty database, then Query 10
LoadAndQuery10 ==
    /\ nstage = "twice"
    /\ nq10' = TryQuery(10, ReplaceTable(NoTable, nout))
    /\ nstage' = "queried"
    /\ UNCHANGED <<nraw, nout, nout2>>
    /\ UNCHANGED runVars

---------------------------------------------------------------------------
(* The script run *)

NoFile == [exists |-> FALSE, data |-> EmptyData]
File(d) == [exists |-> TRUE, data |-> d]

NoMemo == [state |-> "none", data |-> EmptyData]
ReturnedNone == [state |-> "None", data |-> EmptyData]
Returned(d) == [state |-> "df", data |-> d]

BookColumns ==
    (ColumnNames \ {"Ride_Timestamp"})
        \cup {"Vehicle_Type", "Customer_ID", "Canceled_Rides_by_Customer",
              "Canceled_Rides_by_Driver"}

BookBase ==
    [name \in BookColumns |->
        CASE name = "Vehicle_Type" -> S("Prime Sedan")
          [] name = "Customer_ID" -> S("C1")
          [] name = "Canceled_Rides_by_Customer" -> Null
          [] name = "Canceled_Rides_by_Driver" -> Null
          [] OTHER -> BaseCells[name]]

BookRow2 ==
    [BookBase EXCEPT !["Booking_ID"] = S("B2"),
                     !["Date"] = S("2024-01-06"),
                     !["Time"] = S("09:15:00"),
                     !["Booking_Status"] = S("Canceled by Driver"),
                     !["Payment_Method"] = S(""),
                     !["Incomplete_Rides"] = S("Yes"),
                     !["Incomplete_Rides_Reason"] = Str("", 1, 0),
                     !["Ride_Distance"] = S("abc"),
                     !["Booking_Value"] = Num(-5),
                     !["Driver_Ratings"] = Null,
                     !["Customer_Rating"] = S("n/a"),
                     !["Vehicle_Type"] = S("Mini"),
                     !["Customer_ID"] = S("C2"),
                     !["Canceled_Rides_by_Driver"] = S("Personal & Car related issue")]

BookRow3 ==
    [BookBase EXCEPT !["Booking_ID"] = S("B3"),
                     !["Payment_Method"] = Str("UPI", 1, 1),
                     !["Time"] = S("bad"),
                     !["Ride_Distance"] = Num(27)]

\* the workbooks OLA_DataSet.xlsx can hold: two full ones and one whose sheet has
\* no Payment_Method column
Books ==
    {Frame(Plain(BookColumns), <<BookBase, BookRow2>>),
     Frame(Plain(BookColumns), <<BookRow3>>),
     Frame(Plain(BookColumns \ {"Payment_Method"}), <<BookRow2>>)}

\* lines 44-74 on the workbook as read at line 35
Clean(book) == Normalize(ReadExcel(book))

RawChoices == {NoFile} \cup {File(b) : b \in Books}
CacheChoices == {NoFile} \cup {File(ToCsv(Clean(b))) : b \in Books}

NewRun ==
    [cacheBefore |-> cacheFile, rawBefore |-> rawFile, storeBefore |-> store,
     memoBefore |-> memo, returned |-> NoMemo, body |-> FALSE, readCsv |-> FALSE,
     readExcel |-> FALSE, normalized |-> FALSE, cacheWrite |-> "none",
     sqlWrite |-> "none", visuals |-> FALSE, perDay |-> {}, statusCounts |-> {}]

NoRun ==
    [cacheBefore |-> NoFile, rawBefore |-> NoFile, storeBefore |-> NoTable,
     memoBefore |-> NoMemo, returned |-> NoMemo, body |-> FALSE, readCsv |-> FALSE,
     readExcel |-> FALSE, normalized |-> FALSE, cacheWrite |-> "none",
     sqlWrite |-> "none", visuals |-> FALSE, perDay |-> {}, statusCounts |-> {}]

Between == {"idle", "done", "stopped", "crashed"}

Init ==
    /\ pc = "idle"
    /\ rawFile \in RawChoices
    /\ cacheFile \in CacheChoices
    /\ store = NoTable
    /\ memo = NoMemo
    /\ df = EmptyData
    /\ qi = 1
    /\ results = <<>>
    /\ failedAt = 0
    /\ run = NoRun
    /\ nstage = "off"
    /\ nraw = EmptyData
    /\ nout = EmptyData
    /\ nout2 = EmptyData
    /\ nq10 = Failed

\* streamlit runs the script from the top (first visit, or a rerun on a widget event)
StartRun ==
    /\ pc \in Between
    /\ pc' = "load"
    /\ df' = EmptyData
    /\ qi' = 1
    /\ results' = <<>>
    /\ failedAt' = 0
    /\ run' = NewRun
    /\ UNCHANGED <<rawFile, cacheFile, store, memo>>
    /\ UNCHANGED normVars

\* faulty variant of Source: the workbook is preferred to the cleaned CSV
SourcePreferExcel(cacheExists, rawExists) ==
    IF rawExists THEN "excel" ELSE IF cacheExists THEN "csv" ELSE "none"

\* lines 24, 34, 36: which input load_and_clean's body takes
Source(cacheExists, rawExists) ==
    IF cacheExists THEN "csv" ELSE IF rawExists THEN "excel" ELSE "none"

\* faulty variant of AfterLoad: no st.stop()
ContinueAfterLoad(res) == "tosql"

\* lines 87-88: st.stop() when load_and_clean returned None
AfterLoad(res) == IF res.state = "None" THEN "stopped" ELSE "tosql"

\* line 86 with lines 21-83: df = load_and_clean(), memoised by st.cache_data
LoadAndClean ==
    /\ pc = "load"
    /\ \/ /\ memo.state # "none"
          /\ run' = [run EXCEPT !.returned = memo]
          /\ df' = memo.data
          /\ pc' = AfterLoad(memo)
          /\ UNCHANGED <<memo, cacheFile>>
       \/ /\ memo.state = "none"
          /\ Source(cacheFile.exists, rawFile.exists) = "csv"
          /\ LET res == Returned(ReadCleanCsv(cacheFile.data))
             IN /\ run' = [run EXCEPT !.returned = res, !.body = TRUE, !.readCsv = TRUE]
                /\ df' = res.data
                /\ memo' = res
                /\ pc' = AfterLoad(res)
          /\ UNCHANGED cacheFile
       \/ /\ memo.state = "none"
          /\ Source(cacheFile.exists, rawFile.exists) = "excel"
          /\ LET res == Returned(Clean(rawFile.data))
             IN /\ \E written \in BOOLEAN :
                      /\ cacheFile' = IF written THEN File(ToCsv(res.data)) ELSE cacheFile
                      /\ run' = [run EXCEPT !.returned = res, !.body = TRUE,
                                            !.readExcel = TRUE, !.normalized = TRUE,
                                            !.cacheWrite = IF written THEN "ok" ELSE "failed"]
                /\ df' = res.data
                /\ memo' = res
                /\ pc' = AfterLoad(res)
       \/ /\ memo.state = "none"
          /\ Source(cacheFile.exists, rawFile.exists) = "none"
          /\ run' = [run EXCEPT !.returned = ReturnedNone, !.body = TRUE]
          /\ df' = EmptyData
          /\ memo' = ReturnedNone
          /\ pc' = AfterLoad(ReturnedNone)
          /\ UNCHANGED cacheFile
    /\ UNCHANGED <<rawFile, store, qi, results, failedAt>>
    /\ UNCHANGED normVars

\* lines 91-95: to_sql, and the warning when it raises
ToSql ==
    /\ pc = "tosql"
    /\ \/ /\ store' = ReplaceTable(store, df)
          /\ run' = [run EXCEPT !.sqlWrite = "ok"]
       \/ /\ store' \in FailedTable(store, df)
          /\ run' = [run EXCEPT !.sqlWrite = "failed"]
    /\ pc' = "query"
    /\ UNCHANGED <<rawFile, cacheFile, memo, df, qi, results, failedAt>>
    /\ UNCHANGED normVars

\* lines 125-132: one pass of the loop over the catalog; an exception of the
\* second read_sql_query is not caught and ends the script run
RunQuery ==
    /\ pc = "query"
    /\ LET res == TryQuery(qi, store)
       IN IF res.ok
          THEN /\ results' = Append(results, res)
               /\ qi' = qi + 1
               /\ pc' = IF qi = QueryCount THEN "visuals" ELSE "query"
               /\ failedAt' = failedAt
          ELSE /\ failedAt' = qi
               /\ pc' = "crashed"
               /\ UNCHANGED <<results, qi>>
    /\ UNCHANGED <<rawFile, cacheFile, store, memo, df, run>>
    /\ UNCHANGED normVars

DateOf(v) == IF v.t = "ts" THEN [v EXCEPT !.t = "date", !.n = v.n \div 100] ELSE Null

CountWhere(d, c, v) == Cardinality({i \in 1..Len(d.rows) : d.rows[i][c] = v})

\* groupby(c).size(): missing keys are dropped
GroupSizes(d, c) ==
    {<<v, CountWhere(d, c, v)>> : v \in Distinct(d.rows, c) \ {Null}}

\* lines 138-160: Ride_Date, rides per day and the Booking_Status breakdown, from df
Visuals ==
    /\ pc = "visuals"
    /\ LET strict == Has(df, "Ride_Timestamp") /\
                     \E i \in 1..Len(df.rows) :
                        /\ ~IsNull(df.rows[i][Col("Ride_Timestamp")])
                        /\ IsNull(ToDatetime(df.rows[i][Col("Ride_Timestamp")]))
           ids == 1..Len(df.rows)
           dated == IF Has(df, "Ride_Timestamp")
                    THEN SetCol(df, "Ride_Date",
                                [i \in ids |-> DateOf(ToDatetime(Column(df, "Ride_Timestamp")[i]))])
                    ELSE IF Has(df, "Date")
                         THEN SetCol(df, "Ride_Date",
                                     [i \in ids |-> DateOf(ToDatetime(Column(df, "Date")[i]))])
                         ELSE SetCol(df, "Ride_Date", [i \in ids |-> Null])
           filled == IF Has(df, "Booking_Status")
                     THEN SetCol(dated, "Booking_Status",
                                 [i \in ids |-> FillNa(Column(df, "Booking_Status")[i], S("Unknown"))])
                     ELSE dated
       IN IF strict
          THEN /\ pc' = "crashed"
               /\ UNCHANGED <<df, run>>
          ELSE /\ df' = dated
               /\ run' = [run EXCEPT
                            !.visuals = TRUE,
                            !.perDay = GroupSizes(dated, Col("Ride_Date")),
                            !.statusCounts = IF Has(df, "Booking_Status")
                                             THEN GroupSizes(filled, Col("Booking_Status"))
                                             ELSE {}]
               /\ pc' = "done"
    /\ UNCHANGED <<rawFile, cacheFile, store, memo, qi, results, failedAt>>
    /\ UNCHANGED normVars

\* between runs the workbook is added, replaced or removed
SetRawFile ==
    /\ pc \in Between
    /\ \E f \in RawChoices : f # rawFile /\ rawFile' = f
    /\ pc' = "idle"
    /\ df' = EmptyData
    /\ qi' = 1
    /\ results' = <<>>
    /\ failedAt' = 0
    /\ run' = NoRun
    /\ UNCHANGED <<cacheFile, store, memo>>
    /\ UNCHANGED normVars

\* between runs a cleaned CSV is added to the project root, replaced or removed
SetCacheFile ==
    /\ pc \in Between
    /\ \E f \in CacheChoices : f # cacheFile /\ cacheFile' = f
    /\ pc' = "idle"
    /\ df' = EmptyData
    /\ qi' = 1
    /\ results' = <<>>
    /\ failedAt' = 0
    /\ run' = NoRun
    /\ UNCHANGED <<rawFile, store, memo>>
    /\ UNCHANGED normVars

\* the streamlit server is restarted: st.cache_data starts empty
RestartServer ==
    /\ pc \in Between
    /\ memo # NoMemo
    /\ memo' = NoMemo
    /\ pc' = "idle"
    /\ df' = EmptyData
    /\ qi' = 1
    /\ results' = <<>>
    /\ failedAt' = 0
    /\ run' = NoRun
    /\ UNCHANGED <<rawFile, cacheFile, store>>
    /\ UNCHANGED normVars

Next ==
    \/ StartRun
    \/ LoadAndClean
    \/ ToSql
    \/ RunQuery
    \/ Visuals
    \/ SetRawFile
    \/ SetCacheFile
    \/ RestartServer

Spec == Init /\ [][Next]_vars

NormInit ==
    /\ nstage = "raw"
    /\ nraw \in RawFrames
    /\ nout = EmptyData
    /\ nout2 = EmptyData
    /\ nq10 = Failed
    /\ pc = "off"
    /\ rawFile = NoFile
    /\ cacheFile = NoFile
    /\ store = NoTable
    /\ memo = NoMemo
    /\ df = EmptyData
    /\ qi = 1
    /\ results = <<>>
    /\ failedAt = 0
    /\ run = NoRun

NormNext ==
    \/ ApplyOnce
    \/ ApplyTwice
    \/ LoadAndQuery10

SpecNorm == NormInit /\ [][NormNext]_vars

---------------------------------------------------------------------------
(* Properties of the cleaning steps (checked under SpecNorm) *)

HasRaw(name) == \E h \in nraw.cols : h.core = name
RawCell(i, name) == nraw.rows[i][CHOOSE h \in nraw.cols : h.core = name]
Cleaned == nstage \in {"once", "twice", "queried"}
RowIds == 1..Len(nraw.rows)

CanonicalFields ==
    {"Ride_Timestamp", "Payment_Method", "Incomplete_Rides_Reason", "Ride_Distance",
     "Booking_Value", "Driver_Ratings", "Customer_Rating"}

\* C2: applying the cleaning steps to their own output changes no canonical field:
\* the second pass has the same columns, the same number of rows and, in every row,
\* the same Ride_Timestamp, Payment_Method, Incomplete_Rides_Reason, Ride_Distance,
\* Booking_Value, Driver_Ratings and Customer_Rating as the first pass.
C2_Idempotent ==
    nstage \in {"twice", "queried"} =>
        /\ nout2.cols = nout.cols
        /\ Len(nout2.rows) = Len(nout.rows)
        /\ \A i \in 1..Len(nout.rows) : \A name \in CanonicalFields :
              Has(nout, name) => nout2.rows[i][Col(name)] = nout.rows[i][Col(name)]

\* a second pass over an output in which the first pass filled a label, zero-filled
\* a count and derived a timestamp
C2_Witness ==
    /\ nstage = "twice"
    /\ HasRaw("Payment_Method") /\ HasRaw("Ride_Distance") /\ HasRaw("Date")
    /\ \E i \in RowIds :
          /\ RawCell(i, "Payment_Method").core = ""
          /\ nout.rows[i][Col("Payment_Method")] = S("Other")
          /\ nout2.rows[i][Col("Payment_Method")] = S("Other")
    /\ \E i \in RowIds :
          /\ RawCell(i, "Ride_Distance") = S("abc")
          /\ nout2.rows[i][Col("Ride_Distance")] = Num(0)
    /\ \E i \in RowIds : nout2.rows[i][Col("Ride_Timestamp")].t = "ts"

NumberTexts == {"0", "12", "2.7", "4.5", "-3"}

\* a raw cell that is missing or holds no number
Unparsable(v) == v.t = "null" \/ (v.t = "str" /\ v.core \notin NumberTexts)

\* C7: after cleaning, a Ride_Distance or Booking_Value whose raw cell was missing
\* or unparsable is the number 0 (not null), and a Driver_Ratings or Customer_Rating
\* whose raw cell was missing or unparsable is null (not 0).
C7_NumericAsymmetry ==
    Cleaned =>
        \A i \in RowIds :
            /\ \A name \in {"Ride_Distance", "Booking_Value"} :
                  (HasRaw(name) /\ Unparsable(RawCell(i, name)))
                      => nout.rows[i][Col(name)] = Num(0)
            /\ \A name \in {"Driver_Ratings", "Customer_Rating"} :
                  (HasRaw(name) /\ Unparsable(RawCell(i, name)))
                      => nout.rows[i][Col(name)] = Null

\* a cleaned row whose raw distance and raw rating were both unparsable text
C7_Witness ==
    /\ nstage = "once"
    /\ HasRaw("Ride_Distance") /\ HasRaw("Driver_Ratings")
    /\ \E i \in RowIds :
          /\ RawCell(i, "Ride_Distance") = S("abc")
          /\ RawCell(i, "Driver_Ratings") = S("abc")
          /\ nout.rows[i][Col("Ride_Distance")] = Num(0)
          /\ nout.rows[i][Col("Driver_Ratings")] = Null

\* a raw cell that is missing or empty after trimming
Blank(v) == v.t = "null" \/ (v.t = "str" /\ v.core = "")

LabelOf(name) == IF name = "Payment_Method" THEN "Other" ELSE "Unknown Reason"

\* C8: after cleaning, a Payment_Method that was missing or blank is exactly "Other"
\* and an Incomplete_Rides_Reason that was missing or blank is exactly
\* "Unknown Reason"; any other text is kept, trimmed (a number is kept as its text);
\* no cleaned cell of either column is null or empty.
C8_FillRule ==
    Cleaned =>
        \A name \in {"Payment_Method", "Incomplete_Rides_Reason"} :
            HasRaw(name) =>
                /\ Has(nout, name)
                /\ \A i \in RowIds :
                      LET v == RawCell(i, name)
                          o == nout.rows[i][Col(name)]
                      IN /\ Blank(v) => o = S(LabelOf(name))
                         /\ (v.t = "str" /\ v.core # "") => o = S(v.core)
                         /\ v.t = "num" => o = NumText(v.n)
                         /\ o # Null
                         /\ o # EmptyStr

\* a cleaned frame with an untrimmed header, a blank payment method that became
\* "Other", and a padded reason that was kept trimmed
C8_Witness ==
    /\ nstage = "once"
    /\ Str("Payment_Method", 1, 0) \in nraw.cols
    /\ \E i \in RowIds :
          /\ RawCell(i, "Payment_Method") = Str("", 1, 0)
          /\ nout.rows[i][Col("Payment_Method")] = S("Other")
          /\ RawCell(i, "Incomplete_Rides_Reason") = Str("Customer Demand", 0, 1)
          /\ nout.rows[i][Col("Incomplete_Rides_Reason")] = S("Customer Demand")

Counts == {"Ride_Distance", "Booking_Value"}

\* C9 as stated: every cleaned Ride_Distance and Booking_Value is an integer >= 0,
\* for any raw value.
C9_NonNegativeInteger ==
    Cleaned =>
        \A i \in RowIds : \A name \in Counts :
            HasRaw(name) =>
                LET o == nout.rows[i][Col(name)]
                IN o.t = "num" /\ o.n % 10 = 0 /\ o.n >= 0

NegativeNumber(v) == (v.t = "num" /\ v.n < 0) \/ (v.t = "str" /\ v.core = "-3")

\* C9 amended: every cleaned Ride_Distance and Booking_Value is an integer; it is
\* >= 0 unless the raw cell is a negative number, and a negative raw number stays
\* negative or zero: it is truncated toward zero, less than 1 away from the raw value.
C9_IntegerTowardZero ==
    Cleaned =>
        \A i \in RowIds : \A name \in Counts :
            HasRaw(name) =>
                LET v == RawCell(i, name)
                    o == nout.rows[i][Col(name)]
                IN /\ o.t = "num"
                   /\ o.n % 10 = 0
                   /\ ~NegativeNumber(v) => o.n >= 0
                   /\ (v.t = "num" /\ v.n < 0) => (v.n <= o.n /\ o.n <= 0 /\ o.n - v.n < 10)
                   /\ (v.t = "str" /\ v.core = "-3") => o.n = -30

\* a cleaned row whose raw distance -3.5 became the integer -3
C9_Witness ==
    /\ nstage = "once"
    /\ HasRaw("Ride_Distance")
    /\ \E i \in RowIds :
          /\ RawCell(i, "Ride_Distance") = Num(-35)
          /\ nout.rows[i][Col("Ride_Distance")] = Num(-30)

\* C10 as stated: on a cleaned frame that has an Incomplete_Rides_Reason column,
\* Query 10 returns exactly one result row per row of the frame.
C10_EveryRowReturned ==
    (nstage = "queried" /\ Has(nout, "Incomplete_Rides_Reason")) =>
        (nq10.ok /\ Len(nq10.rows) = Len(nout.rows))

\* C10 amended: on a cleaned frame that has every column Query 10 names (Booking_ID,
\* Ride_Timestamp, Booking_Status, Incomplete_Rides, Incomplete_Rides_Reason),
\* Query 10 returns exactly one result row per row of the frame, each with a
\* non-null reason, whatever the Incomplete_Rides values are.
C10_EveryRowReturnedWhenColumnsPresent ==
    (nstage = "queried" /\ \A name \in QueryCols(10) : Has(nout, name)) =>
        /\ nq10.ok
        /\ Len(nq10.rows) = Len(nout.rows)
        /\ \A k \in 1..Len(nq10.rows) :
              nq10.rows[k][Col("Incomplete_Rides_Reason")] # Null

\* Query 10 returned both rows of a frame none of whose Incomplete_Rides is "yes"
\* and one of whose raw reasons was blank
C10_Witness ==
    /\ nstage = "queried"
    /\ nq10.ok
    /\ Len(nq10.rows) = 2
    /\ \A i \in RowIds : RawCell(i, "Incomplete_Rides") \in {S("No"), Null}
    /\ \E i \in RowIds : Blank(RawCell(i, "Incomplete_Rides_Reason"))

---------------------------------------------------------------------------
(* Properties of the script run (checked under Spec) *)

InRun == pc \notin {"idle", "load"}
Loaded == pc \in {"query", "visuals", "crashed"}

\* C1: after a to_sql that succeeded, table ola_rides holds exactly the rows of the
\* DataFrame just loaded, in its columns, and nothing of what the table held before.
C1_ReplaceSemantics ==
    (Loaded /\ run.sqlWrite = "ok") =>
        /\ store.exists
        /\ store.data.cols = df.cols
        /\ Len(store.data.rows) = Len(df.rows)
        /\ \A i \in 1..Len(df.rows) : \A c \in df.cols :
              store.data.rows[i][c] = SqlValue(df.rows[i][c])

\* a successful load over a table that held other rows from an earlier load
C1_Witness ==
    /\ pc = "query"
    /\ run.sqlWrite = "ok"
    /\ run.storeBefore.exists
    /\ run.storeBefore.data.rows # <<>>
    /\ run.storeBefore # store

Halted ==
    /\ run.returned = ReturnedNone
    /\ pc = "stopped"
    /\ store = run.storeBefore
    /\ run.sqlWrite = "none"
    /\ results = <<>>
    /\ ~run.visuals

\* C3 as stated: in a run that starts with neither the cleaned CSV nor the workbook,
\* load_and_clean returns None and the run halts: the table is not written, no
\* query runs and no visual is computed.
C3_HaltsWithoutSource ==
    (InRun /\ ~run.cacheBefore.exists /\ ~run.rawBefore.exists) => Halted

\* C3 amended: the same, for a run in which st.cache_data holds no DataFrame
\* returned by load_and_clean in an earlier run of the same server process.
C3_HaltsWithoutSourceUnlessMemoised ==
    (InRun /\ ~run.cacheBefore.exists /\ ~run.rawBefore.exists
           /\ run.memoBefore.state # "df") => Halted

\* a run without either file that halted and left the table of an earlier run alone
C3_Witness ==
    /\ pc = "stopped"
    /\ ~run.cacheBefore.exists
    /\ ~run.rawBefore.exists
    /\ run.body
    /\ run.storeBefore.exists
    /\ store = run.storeBefore

\* C4: a catalog query that fails on a missing column does not end the run: the
\* queries after it are still executed.
C4_QueryFailureIsolated ==
    ~(pc = "crashed" /\ failedAt # 0 /\ store.exists /\ failedAt < QueryCount)

\* C5: after a failed cache write or a failed to_sql the run goes on to the queries
\* and visuals, and every query result equals the result on the DataFrame in memory.
C5_InMemoryRecovery ==
    (Loaded /\ (run.sqlWrite = "failed" \/ run.cacheWrite = "failed")) =>
        /\ pc # "crashed"
        /\ \A k \in 1..Len(results) :
              results[k] = TryQuery(k, ReplaceTable(NoTable, df))

CacheUntouched ==
    /\ ~run.normalized
    /\ ~run.readExcel
    /\ run.cacheWrite = "none"
    /\ cacheFile = run.cacheBefore

WrittenOnlyWithoutCache ==
    (pc # "idle" /\ cacheFile # run.cacheBefore) =>
        (~run.cacheBefore.exists /\ run.rawBefore.exists /\ run.cacheWrite = "ok")

\* C6 as stated: in any run that starts with the cleaned CSV present, load_and_clean
\* returns the CSV's contents, runs none of steps 1-4, does not read the workbook
\* and does not rewrite the CSV; the CSV is written only in a run that started
\* without it and had a workbook.
C6_CacheDecides ==
    /\ (InRun /\ run.cacheBefore.exists) =>
          (CacheUntouched /\ run.returned = Returned(ReadCleanCsv(run.cacheBefore.data)))
    /\ WrittenOnlyWithoutCache

\* C6 amended: load_and_clean returns the CSV's contents in a run that starts with
\* the CSV present and with nothing memoised by st.cache_data (its body runs); in
\* every run that starts with the CSV present it runs none of steps 1-4, does not
\* read the workbook and does not rewrite the CSV; the CSV is written only in a run
\* that started without it and had a workbook.
C6_CacheDecidesWhenBodyRuns ==
    /\ (InRun /\ run.cacheBefore.exists) =>
          /\ CacheUntouched
          /\ run.memoBefore.state = "none" =>
                run.returned = Returned(ReadCleanCsv(run.cacheBefore.data))
    /\ WrittenOnlyWithoutCache

\* a finished run that started with a workbook and a cleaned CSV made from another
\* workbook, and used the CSV
C6_Witness ==
    /\ pc = "done"
    /\ run.cacheBefore.exists
    /\ run.rawBefore.exists
    /\ run.cacheBefore.data # ToCsv(Clean(run.rawBefore.data))
    /\ run.readCsv
    /\ run.returned = Returned(ReadCleanCsv(run.cacheBefore.data))
    /\ cacheFile = run.cacheBefore

====
